---- MODULE Spec2Model ----
(***************************************************************************)
(* State-machine model of the LunarScry program (src/lunar_scry.rs): the   *)
(* protocol singleton, Content and Vote accounts, and one action per       *)
(* instruction handler.  An instruction that returns Err (or panics) is    *)
(* rolled back by the runtime: its action records the error in `last` and  *)
(* leaves every account unchanged.                                         *)
(***************************************************************************)
EXTENDS Integers, Sequences, FiniteSets, TLC

(* ---- program constants (mod constants, src/lunar_scry.rs:7-23) ---- *)
(* Token amounts are counted in whole tokens (10^6 base units, the mint    *)
(* has 6 decimals), so MAX_STAKE_PER_USER = 10_000_000_000 base units is   *)
(* 10000 here; every amount the model uses is a whole number of tokens.    *)
MAX_EMERGENCY_ADMINS == 10
MAX_CONTENT_HASH_LENGTH == 64
MIN_VOTING_PERIOD == 86400
MAX_VOTING_PERIOD == 2592000
MIN_QUORUM_PERCENTAGE == 10
MAX_QUORUM_PERCENTAGE == 90
STAKE_LOCKUP_PERIOD == 86400
MAX_DAILY_SUBMISSIONS == 10000
MAX_DAILY_VOTES == 100000
MAX_STAKE_PER_USER == 10000
MIN_AI_CONFIDENCE == 50
VOTE_COOLDOWN_PERIOD == 10
REWARD_DISTRIBUTION_PERIOD == 86400
DAY == 86400

(* is_vote_eligible names two constants that mod constants does not       *)
(* define; the values here are a choice of the model                       *)
REWARD_ELIGIBILITY_PERIOD == 604800
MIN_STAKE_FOR_REWARDS == 1

(* ---- bounds of the model ---- *)
MaxContents == 1
MaxVotes == 2
MaxDays == 2
MaxBatch == 2
MaxAdminLen == 2

(* ---- input domains ---- *)
Identities == {"alice", "bob"}
Deployer == "alice"
Submitters == {"alice"}
StartTime == 1700000000
Offsets == {0, VOTE_COOLDOWN_PERIOD - 1, VOTE_COOLDOWN_PERIOD}
Instants == { StartTime + d * DAY + o : d \in 0..MaxDays, o \in Offsets }
ContentTypes == {"Article", "Video", "DeFi"}
HashLengths == {32, MAX_CONTENT_HASH_LENGTH + 1}
AiScores == {MIN_AI_CONFIDENCE - 1, MIN_AI_CONFIDENCE}
VoteTypes == {"Approve", "Reject"}
StakeAmounts == {0, 5, MAX_STAKE_PER_USER + 1}
RewardPools == {0, 100}
StakeVaults == {0, 10}
ConfigCandidates ==
  { [stake_required |-> s, voting_period |-> vp, quorum_percentage |-> q,
     reward_per_vote |-> r] :
      s \in {0, 5}, vp \in {MIN_VOTING_PERIOD - 1, MIN_VOTING_PERIOD},
      q \in {MIN_QUORUM_PERCENTAGE - 1, 50}, r \in {0, 10} }

(* u32/u64 checked_add.  The None (overflow) result needs a sum of 2^32   *)
(* or 2^64: an accumulator of a Content holds at most                      *)
(* (MAX_VOTING_PERIOD / VOTE_COOLDOWN_PERIOD + 1) * MAX_STAKE_PER_USER,    *)
(* which is below 2^64, and the counters of this model stay far below      *)
(* 2^32, so the sum is always the Some branch.                             *)
checked_add(a, b) == a + b

VARIABLES protocol, contents, votes, ledger, now, last

vars == <<protocol, contents, votes, ledger, now, last>>

(* `last` names the instruction that produced the current state, its      *)
(* result, and the Content and Vote accounts it was given (0: none)        *)
NoCall == [op |-> "init", err |-> "Ok", content |-> 0, vote |-> 0]

Call(op, err) == [NoCall EXCEPT !.op = op, !.err = err]

(* ---- initialize (src/lunar_scry.rs:29-73) ---- *)
initialize_err(config) ==
  IF ~(config.quorum_percentage >= MIN_QUORUM_PERCENTAGE
       /\ config.quorum_percentage <= MAX_QUORUM_PERCENTAGE)
    THEN "InvalidQuorumPercentage"
  ELSE IF ~(config.voting_period >= MIN_VOTING_PERIOD
            /\ config.voting_period <= MAX_VOTING_PERIOD)
    THEN "InvalidVotingPeriod"
  ELSE IF ~(config.reward_per_vote > 0)
    THEN "InvalidRewardPerVote"
  ELSE "Ok"

initialize(config, admin) ==
  [admin |-> admin,
   stake_required |-> config.stake_required,
   voting_period |-> config.voting_period,
   quorum_percentage |-> config.quorum_percentage,
   reward_per_vote |-> config.reward_per_vote,
   is_paused |-> FALSE,
   daily_submission_count |-> 0,
   daily_vote_count |-> 0,
   last_reset_timestamp |-> 0,
   last_reward_distribution_timestamp |-> 0,
   total_rewards_distributed |-> 0,
   emergency_admins |-> <<admin>>]

Init ==
  /\ \E config \in ConfigCandidates :
       /\ initialize_err(config) = "Ok"
       /\ protocol = initialize(config, Deployer)
  /\ contents = <<>>
  /\ votes = <<>>
  /\ ledger = <<>>
  /\ now = StartTime
  /\ last = NoCall

(* the clock oracle: monotonic, advanced between instructions *)
Tick ==
  /\ \E t \in Instants : t > now /\ now' = t
  /\ last' = Call("tick", "Ok")
  /\ UNCHANGED <<protocol, contents, votes, ledger>>

(* ---- ProtocolState helpers (src/lunar_scry.rs:658-709) ---- *)
(* check_active_status that never reports the pause *)
check_active_status_off(p) == "Ok"

check_active_status(p) == IF p.is_paused THEN "ProtocolPaused" ELSE "Ok"

(* check_and_update_daily_limits that resets only after more than a day *)
check_and_update_daily_limits_strict(p, current_timestamp) ==
  IF current_timestamp - p.last_reset_timestamp > 86400
    THEN [p EXCEPT !.daily_submission_count = 0,
                   !.daily_vote_count = 0,
                   !.last_reset_timestamp = current_timestamp]
    ELSE p

check_and_update_daily_limits(p, current_timestamp) ==
  IF current_timestamp - p.last_reset_timestamp >= 86400
    THEN [p EXCEPT !.daily_submission_count = 0,
                   !.daily_vote_count = 0,
                   !.last_reset_timestamp = current_timestamp]
    ELSE p

increment_submission_count(p) ==
  [p EXCEPT !.daily_submission_count = checked_add(@, 1)]

increment_vote_count(p) ==
  [p EXCEPT !.daily_vote_count = checked_add(@, 1)]

(* validate_vote_transaction without the check of the voting window *)
validate_vote_transaction_windowless(p, content, stake_amount, current_timestamp) ==
  IF check_active_status(p) # "Ok" THEN check_active_status(p)
  ELSE IF ~(stake_amount >= p.stake_required /\ stake_amount <= MAX_STAKE_PER_USER)
    THEN "InvalidStakeAmount"
  ELSE IF ~(current_timestamp >= content.last_vote_timestamp + VOTE_COOLDOWN_PERIOD)
    THEN "VotingTooFrequent"
  ELSE "Ok"

(* validate_vote_transaction with a strict cooldown comparison *)
validate_vote_transaction_strict(p, content, stake_amount, current_timestamp) ==
  IF check_active_status(p) # "Ok" THEN check_active_status(p)
  ELSE IF ~(stake_amount >= p.stake_required /\ stake_amount <= MAX_STAKE_PER_USER)
    THEN "InvalidStakeAmount"
  ELSE IF ~(current_timestamp <= content.submission_time + content.voting_period)
    THEN "VotingPeriodEnded"
  ELSE IF ~(current_timestamp > content.last_vote_timestamp + VOTE_COOLDOWN_PERIOD)
    THEN "VotingTooFrequent"
  ELSE "Ok"

(* validate_vote_transaction with the window checked before the stake *)
validate_vote_transaction_reordered(p, content, stake_amount, current_timestamp) ==
  IF check_active_status(p) # "Ok" THEN check_active_status(p)
  ELSE IF ~(current_timestamp <= content.submission_time + content.voting_period)
    THEN "VotingPeriodEnded"
  ELSE IF ~(stake_amount >= p.stake_required /\ stake_amount <= MAX_STAKE_PER_USER)
    THEN "InvalidStakeAmount"
  ELSE IF ~(current_timestamp >= content.last_vote_timestamp + VOTE_COOLDOWN_PERIOD)
    THEN "VotingTooFrequent"
  ELSE "Ok"

validate_vote_transaction(p, content, stake_amount, current_timestamp) ==
  IF check_active_status(p) # "Ok" THEN check_active_status(p)
  ELSE IF ~(stake_amount >= p.stake_required /\ stake_amount <= MAX_STAKE_PER_USER)
    THEN "InvalidStakeAmount"
  ELSE IF ~(current_timestamp <= content.submission_time + content.voting_period)
    THEN "VotingPeriodEnded"
  ELSE IF ~(current_timestamp >= content.last_vote_timestamp + VOTE_COOLDOWN_PERIOD)
    THEN "VotingTooFrequent"
  ELSE "Ok"

(* ---- Content (src/lunar_scry.rs:711-805) ---- *)
(* a freshly created account is zero-filled; initialize sets the rest *)
Content_initialize(submitter, content_type, ai_score, p, current_timestamp) ==
  [submitter |-> submitter,
   content_type |-> content_type,
   ai_score |-> ai_score,
   submission_time |-> current_timestamp,
   status |-> "Pending",
   approve_votes |-> 0,
   reject_votes |-> 0,
   total_stake |-> 0,
   voting_period |-> p.voting_period,
   quorum_percentage |-> p.quorum_percentage,
   vote_count |-> 0,
   last_vote_timestamp |-> 0]

(* process_vote with the total left alone on a Reject vote *)
process_vote_reject_untotalled(content, vote_type, stake_amount, clock) ==
  LET c1 == IF vote_type = "Approve"
              THEN [content EXCEPT !.approve_votes = checked_add(@, stake_amount),
                                   !.total_stake = checked_add(@, stake_amount)]
              ELSE [content EXCEPT !.reject_votes = checked_add(@, stake_amount)]
      c3 == [c1 EXCEPT !.vote_count = checked_add(@, 1)]
  IN [c3 EXCEPT !.last_vote_timestamp = clock]

process_vote(content, vote_type, stake_amount, clock) ==
  LET c1 == IF vote_type = "Approve"
              THEN [content EXCEPT !.approve_votes = checked_add(@, stake_amount)]
              ELSE [content EXCEPT !.reject_votes = checked_add(@, stake_amount)]
      c2 == [c1 EXCEPT !.total_stake = checked_add(@, stake_amount)]
      c3 == [c2 EXCEPT !.vote_count = checked_add(@, 1)]
  IN [c3 EXCEPT !.last_vote_timestamp = clock]

(* ---- Vote (src/lunar_scry.rs:807-831) ---- *)
Vote_initialize(voter, content_id, vote_type, stake_amount, current_timestamp) ==
  [voter |-> voter,
   content_id |-> content_id,
   vote_type |-> vote_type,
   stake_amount |-> stake_amount,
   vote_timestamp |-> current_timestamp,
   status |-> "Active"]

(* what the token program has paid for a Vote: by claim_rewards, and by    *)
(* the transfers of distribute_rewards                                     *)
NoPayments == [claims |-> 0, claim_amount |-> 0, batches |-> 0, batch_amount |-> 0]

(* ---- submit_content (src/lunar_scry.rs:75-120) ---- *)
submit_content_err(p, content_type, hash_len, ai_score) ==
  IF check_active_status(p) # "Ok" THEN check_active_status(p)
  ELSE IF ~(content_type # "Video" /\ content_type # "DeFi")
    THEN "UnsupportedContentType"
  ELSE IF ~(hash_len <= MAX_CONTENT_HASH_LENGTH) THEN "ContentHashTooLong"
  ELSE IF ~(ai_score >= MIN_AI_CONFIDENCE) THEN "LowAIConfidence"
  ELSE "Ok"

(* protocol_state as the handler has written it when it returns: the      *)
(* daily reset comes before the checks of content_data                     *)
submit_content_exit(p, content_type, hash_len, ai_score, clock) ==
  IF check_active_status(p) # "Ok" THEN p
  ELSE LET p1 == check_and_update_daily_limits(p, clock)
       IN IF submit_content_err(p, content_type, hash_len, ai_score) # "Ok"
            THEN p1
            ELSE increment_submission_count(p1)

(* an instruction whose writes survive its error *)
account_commit_always(res, before, after) == after

(* the writes of an instruction are kept only when it returns Ok *)
account_commit(res, before, after) == IF res = "Ok" THEN after ELSE before

SubmitContent(submitter, content_type, hash_len, ai_score) ==
    LET res == submit_content_err(protocol, content_type, hash_len, ai_score)
        p1 == check_and_update_daily_limits(protocol, now)
        content == Content_initialize(submitter, content_type, ai_score, p1, now)
        exit == submit_content_exit(protocol, content_type, hash_len, ai_score, now)
    IN /\ Len(contents) < MaxContents
       /\ last' = [Call("submit_content", res) EXCEPT !.content = Len(contents) + 1]
       /\ protocol' = account_commit(res, protocol, exit)
       /\ contents' = IF res = "Ok" THEN Append(contents, content) ELSE contents
       /\ UNCHANGED <<votes, ledger, now>>

(* ---- cast_vote (src/lunar_scry.rs:122-154) ---- *)
CastVote(voter, c, vote_type, stake_amount) ==
    LET verr == validate_vote_transaction(protocol, contents[c], stake_amount, now)
        content == process_vote(contents[c], vote_type, stake_amount, now)
        vote == Vote_initialize(voter, c, vote_type, stake_amount, now)
        p1 == increment_vote_count(protocol)
        res == verr
    IN /\ Len(votes) < MaxVotes
       /\ last' = [Call("cast_vote", res) EXCEPT
                     !.content = c, !.vote = Len(votes) + 1]
       /\ IF res = "Ok"
            THEN /\ protocol' = p1
                 /\ contents' = [contents EXCEPT ![c] = content]
                 /\ votes' = Append(votes, vote)
                 /\ ledger' = Append(ledger, NoPayments)
            ELSE UNCHANGED <<protocol, contents, votes, ledger>>
       /\ UNCHANGED now

(* ---- finalize_decision (src/lunar_scry.rs:156-193) ---- *)
(* finalize_decision that accepts the last second of the voting window *)
finalize_decision_err_at_end(p, content, clock) ==
  LET total_stake == content.approve_votes + content.reject_votes
  IN IF check_active_status(p) # "Ok" THEN check_active_status(p)
     ELSE IF ~(clock >= content.submission_time + content.voting_period)
       THEN "VotingPeriodActive"
     ELSE IF ~(total_stake >= (content.total_stake * content.quorum_percentage) \div 100)
       THEN "QuorumNotReached"
     ELSE "Ok"

(* finalize_decision that asks the quorum of the approving stake alone *)
finalize_decision_err_approve_quorum(p, content, clock) ==
  LET total_stake == content.approve_votes
  IN IF check_active_status(p) # "Ok" THEN check_active_status(p)
     ELSE IF ~(clock > content.submission_time + content.voting_period)
       THEN "VotingPeriodActive"
     ELSE IF ~(total_stake >= (content.total_stake * content.quorum_percentage) \div 100)
       THEN "QuorumNotReached"
     ELSE "Ok"

finalize_decision_err(p, content, clock) ==
  LET total_stake == content.approve_votes + content.reject_votes
  IN IF check_active_status(p) # "Ok" THEN check_active_status(p)
     ELSE IF ~(clock > content.submission_time + content.voting_period)
       THEN "VotingPeriodActive"
     ELSE IF ~(total_stake >= (content.total_stake * content.quorum_percentage) \div 100)
       THEN "QuorumNotReached"
     ELSE "Ok"

(* final_status that approves a tie *)
final_status_tie_approves(content) ==
  IF content.approve_votes >= content.reject_votes THEN "Approved" ELSE "Rejected"

final_status(content) ==
  IF content.approve_votes > content.reject_votes THEN "Approved" ELSE "Rejected"

FinalizeDecision(c) ==
    LET res == finalize_decision_err(protocol, contents[c], now)
    IN /\ last' = [Call("finalize_decision", res) EXCEPT !.content = c]
       /\ IF res = "Ok"
            THEN contents' = [contents EXCEPT ![c].status = final_status(contents[c])]
            ELSE UNCHANGED contents
       /\ UNCHANGED <<protocol, votes, ledger, now>>

(* ---- claim_rewards (src/lunar_scry.rs:195-244) ---- *)
(* the division panics on a zero divisor, which aborts the instruction *)
(* claim_rewards without the check of vote_account.status *)
claim_rewards_err_unguarded(p, content, vote, voter, clock) ==
  IF check_active_status(p) # "Ok" THEN check_active_status(p)
  ELSE IF ~(clock >= vote.vote_timestamp + STAKE_LOCKUP_PERIOD) THEN "StakeStillLocked"
  ELSE IF ~(vote.voter = voter) THEN "Unauthorized"
  ELSE IF content.total_stake = 0 THEN "Panic"
  ELSE "Ok"

(* claim_rewards without the check of the lockup *)
claim_rewards_err_unlocked(p, content, vote, voter, clock) ==
  IF check_active_status(p) # "Ok" THEN check_active_status(p)
  ELSE IF ~(vote.voter = voter) THEN "Unauthorized"
  ELSE IF ~(vote.status = "Active") THEN "RewardsAlreadyClaimed"
  ELSE IF content.total_stake = 0 THEN "Panic"
  ELSE "Ok"

claim_rewards_err(p, content, vote, voter, clock) ==
  IF check_active_status(p) # "Ok" THEN check_active_status(p)
  ELSE IF ~(clock >= vote.vote_timestamp + STAKE_LOCKUP_PERIOD) THEN "StakeStillLocked"
  ELSE IF ~(vote.voter = voter) THEN "Unauthorized"
  ELSE IF ~(vote.status = "Active") THEN "RewardsAlreadyClaimed"
  ELSE IF content.total_stake = 0 THEN "Panic"
  ELSE "Ok"

reward_amount(p, content, vote) ==
  (vote.stake_amount * p.reward_per_vote) \div content.total_stake

ClaimRewards(v, c, voter) ==
    LET res == claim_rewards_err(protocol, contents[c], votes[v], voter, now)
        paid == IF res = "Ok" THEN reward_amount(protocol, contents[c], votes[v]) ELSE 0
    IN /\ last' = [Call("claim_rewards", res) EXCEPT !.content = c, !.vote = v]
       /\ IF res = "Ok"
            THEN /\ votes' = [votes EXCEPT ![v].status = "Rewarded"]
                 /\ ledger' = [ledger EXCEPT ![v].claims = @ + 1,
                                             ![v].claim_amount = @ + paid]
            ELSE UNCHANGED <<votes, ledger>>
       /\ UNCHANGED <<protocol, contents, now>>

(* ---- emergency control (src/lunar_scry.rs:246-334) ---- *)
contains(seq, x) == \E i \in DOMAIN seq : seq[i] = x

(* retain that drops only the first occurrence *)
retain_first(seq, x) ==
  IF \A i \in DOMAIN seq : seq[i] # x THEN seq
  ELSE LET i == CHOOSE k \in DOMAIN seq :
                  seq[k] = x /\ \A j \in 1..(k - 1) : seq[j] # x
       IN SubSeq(seq, 1, i - 1) \o SubSeq(seq, i + 1, Len(seq))

retain(seq, x) == SelectSeq(seq, LAMBDA a : a # x)

(* pause_protocol open to every caller *)
pause_protocol_err_open(p, admin) == "Ok"

pause_protocol_err(p, admin) ==
  IF ~contains(p.emergency_admins, admin) THEN "Unauthorized" ELSE "Ok"

PauseProtocol(admin) ==
    LET res == pause_protocol_err(protocol, admin)
    IN /\ last' = Call("pause_protocol", res)
       /\ IF res = "Ok"
            THEN protocol' = [protocol EXCEPT !.is_paused = TRUE]
            ELSE UNCHANGED protocol
       /\ UNCHANGED <<contents, votes, ledger, now>>

unpause_protocol_err(p, admin) ==
  IF ~contains(p.emergency_admins, admin) THEN "Unauthorized" ELSE "Ok"

UnpauseProtocol(admin) ==
    LET res == unpause_protocol_err(protocol, admin)
    IN /\ last' = Call("unpause_protocol", res)
       /\ IF res = "Ok"
            THEN protocol' = [protocol EXCEPT !.is_paused = FALSE]
            ELSE UNCHANGED protocol
       /\ UNCHANGED <<contents, votes, ledger, now>>

add_emergency_admin_err(p, admin) ==
  IF ~(Len(p.emergency_admins) < MAX_EMERGENCY_ADMINS) THEN "MaxEmergencyAdminsReached"
  ELSE IF ~contains(p.emergency_admins, admin) THEN "Unauthorized"
  ELSE "Ok"

AddEmergencyAdmin(admin, new_admin) ==
    LET res == add_emergency_admin_err(protocol, admin)
    IN /\ last' = Call("add_emergency_admin", res)
       /\ IF res = "Ok"
            THEN protocol' = [protocol EXCEPT
                                !.emergency_admins = Append(@, new_admin)]
            ELSE UNCHANGED protocol
       /\ UNCHANGED <<contents, votes, ledger, now>>

remove_emergency_admin_err(p, admin) ==
  IF ~(Len(p.emergency_admins) > 1) THEN "CannotRemoveLastAdmin"
  ELSE IF ~contains(p.emergency_admins, admin) THEN "Unauthorized"
  ELSE "Ok"

RemoveEmergencyAdmin(admin, admin_to_remove) ==
    LET res == remove_emergency_admin_err(protocol, admin)
    IN /\ last' = Call("remove_emergency_admin", res)
       /\ IF res = "Ok"
            THEN protocol' = [protocol EXCEPT
                                !.emergency_admins = retain(@, admin_to_remove)]
            ELSE UNCHANGED protocol
       /\ UNCHANGED <<contents, votes, ledger, now>>

(* ---- distribute_rewards (src/lunar_scry.rs:336-479) ---- *)
(* Vote has no `claimed` or `timestamp` field; they are read as            *)
(* status = Rewarded and vote_timestamp                                    *)
is_vote_eligible(vote, current_timestamp) ==
  /\ ~(vote.status = "Rewarded")
  /\ vote.vote_timestamp + REWARD_ELIGIBILITY_PERIOD > current_timestamp
  /\ vote.stake_amount >= MIN_STAKE_FOR_REWARDS

(* calculate_time_weight with the tier boundaries counted to the lower tier *)
calculate_time_weight_inclusive(vote_timestamp, current_timestamp) ==
  LET time_diff == current_timestamp - vote_timestamp
  IN IF time_diff <= 86400 THEN 100
     ELSE IF time_diff <= 259200 THEN 75
     ELSE IF time_diff <= 604800 THEN 50
     ELSE 25

calculate_time_weight(vote_timestamp, current_timestamp) ==
  LET time_diff == current_timestamp - vote_timestamp
  IN IF time_diff < 86400 THEN 100
     ELSE IF time_diff < 259200 THEN 75
     ELSE IF time_diff < 604800 THEN 50
     ELSE 25

(* The reward is computed in u128 and narrowed to u64 at the end.  The     *)
(* model's u64 ends at U64_MAX = 2^16 - 1, so that the products of a       *)
(* reward that does not fit stay within the integers of the model checker; *)
(* the u128 products cannot overflow, a stake being at most                *)
(* MAX_STAKE_PER_USER.                                                     *)
U64_MAX == 65535

(* u64::try_from(x).unwrap_or(0) *)
u64_try_from_unwrap_or_0(x) == IF x > U64_MAX THEN 0 ELSE x

(* total_stake = 0 makes checked_div return None: CalculationError (-1) *)
calculate_voter_reward(stake_amount, total_stake, reward_pool, vote_timestamp, current_timestamp) ==
  IF total_stake = 0 THEN -1
  ELSE LET base_share == (stake_amount * reward_pool) \div total_stake
           time_weight == calculate_time_weight(vote_timestamp, current_timestamp)
       IN u64_try_from_unwrap_or_0((base_share * time_weight) \div 100)

(* the loop over remaining_accounts, from entry i on; acc carries the      *)
(* running total, the balance left in the reward vault, the votes paid     *)
(* and the amount of each transfer                                         *)
RECURSIVE distribute_loop(_, _, _, _, _, _, _)
distribute_loop(i, acc, batch, total_stake, reward_pool, early, clock) ==
  IF i > Len(batch) \/ acc.err # "Ok" THEN acc
  ELSE LET vote == votes[batch[i]]
           reward == calculate_voter_reward(vote.stake_amount, total_stake,
                                            reward_pool, vote.vote_timestamp, clock)
           final_reward == IF batch[i] \in early THEN (reward * 120) \div 100
                           ELSE reward
       IN IF ~is_vote_eligible(vote, clock)
            THEN distribute_loop(i + 1, acc, batch, total_stake, reward_pool, early, clock)
          ELSE IF reward = -1 THEN [acc EXCEPT !.err = "CalculationError"]
          ELSE IF final_reward > acc.balance THEN [acc EXCEPT !.err = "TransferFailed"]
          ELSE distribute_loop(i + 1,
                 [acc EXCEPT !.total = checked_add(@, final_reward),
                             !.balance = @ - final_reward,
                             !.paid = Append(@, batch[i]),
                             !.amounts = Append(@, final_reward)],
                 batch, total_stake, reward_pool, early, clock)

NothingPaid(err) == [err |-> err, total |-> 0, paid |-> <<>>, amounts |-> <<>>]

(* distribute_rewards without the check that a distribution is due *)
distribute_rewards_undue(p, batch, total_stake, reward_pool, early, clock) ==
  IF p.is_paused THEN NothingPaid("ProtocolPaused")
  ELSE IF ~(reward_pool > 0) THEN NothingPaid("InsufficientRewardPool")
  ELSE LET r == distribute_loop(1, [err |-> "Ok", total |-> 0, balance |-> reward_pool,
                                    paid |-> <<>>, amounts |-> <<>>],
                                batch, total_stake, reward_pool, early, clock)
       IN [err |-> r.err, total |-> r.total, paid |-> r.paid, amounts |-> r.amounts]

distribute_rewards(p, batch, total_stake, reward_pool, early, clock) ==
  IF p.is_paused THEN NothingPaid("ProtocolPaused")
  ELSE IF ~(clock >= p.last_reward_distribution_timestamp + REWARD_DISTRIBUTION_PERIOD)
    THEN NothingPaid("RewardDistributionNotDue")
  ELSE IF ~(reward_pool > 0) THEN NothingPaid("InsufficientRewardPool")
  ELSE LET r == distribute_loop(1, [err |-> "Ok", total |-> 0, balance |-> reward_pool,
                                    paid |-> <<>>, amounts |-> <<>>],
                                batch, total_stake, reward_pool, early, clock)
       IN [err |-> r.err, total |-> r.total, paid |-> r.paid, amounts |-> r.amounts]

Occurrences(seq, x) == Cardinality({ i \in DOMAIN seq : seq[i] = x })

(* the sum of the transfers of one distribute_rewards that went to vote v *)
RECURSIVE PaidTo(_, _, _)
PaidTo(r, v, i) ==
  IF i > Len(r.paid) THEN 0
  ELSE (IF r.paid[i] = v THEN r.amounts[i] ELSE 0) + PaidTo(r, v, i + 1)

Batches == UNION { [1..n -> DOMAIN votes] : n \in 0..MaxBatch }

DistributeRewards(batch, total_stake, reward_pool, early) ==
    LET r == distribute_rewards(protocol, batch, total_stake, reward_pool, early, now)
    IN /\ last' = Call("distribute_rewards", r.err)
       /\ IF r.err = "Ok"
            THEN /\ protocol' = [protocol EXCEPT
                       !.last_reward_distribution_timestamp = now,
                       !.total_rewards_distributed = checked_add(@, r.total)]
                 /\ ledger' = [v \in DOMAIN ledger |->
                       [ledger[v] EXCEPT !.batches = @ + Occurrences(r.paid, v),
                                         !.batch_amount = @ + PaidTo(r, v, 1)]]
            ELSE UNCHANGED <<protocol, ledger>>
       /\ UNCHANGED <<contents, votes, now>>

(* ---- the instructions, each with its inputs ---- *)
Submit ==
  \E submitter \in Submitters, content_type \in ContentTypes,
     hash_len \in HashLengths, ai_score \in AiScores :
       SubmitContent(submitter, content_type, hash_len, ai_score)

Vote ==
  \E voter \in Identities, c \in DOMAIN contents, vote_type \in VoteTypes,
     stake_amount \in StakeAmounts :
       CastVote(voter, c, vote_type, stake_amount)

Finalize == \E c \in DOMAIN contents : FinalizeDecision(c)

Claim ==
  \E v \in DOMAIN votes, c \in DOMAIN contents, voter \in Identities :
       ClaimRewards(v, c, voter)

Pause == \E admin \in Identities : PauseProtocol(admin)

Unpause == \E admin \in Identities : UnpauseProtocol(admin)

AddAdmin ==
  \E admin \in Identities, new_admin \in Identities :
       AddEmergencyAdmin(admin, new_admin)

RemoveAdmin ==
  \E admin \in Identities, admin_to_remove \in Identities :
       RemoveEmergencyAdmin(admin, admin_to_remove)

Distribute ==
  \E batch \in Batches, total_stake \in StakeVaults, reward_pool \in RewardPools,
     early \in SUBSET DOMAIN votes :
       DistributeRewards(batch, total_stake, reward_pool, early)

(* Spec: the content lifecycle over time.  The clock advances between the  *)
(* instructions that read it; the admin set stays as initialize left it.   *)
Next ==
  \/ Tick
  \/ Submit
  \/ Vote
  \/ Finalize
  \/ Claim
  \/ Pause
  \/ Unpause

Spec == Init /\ [][Next]_vars

(* SpecWarm: the same instructions, started late in a busy day: both       *)
(* daily counters have reached their caps through MAX_DAILY_SUBMISSIONS    *)
(* submissions and MAX_DAILY_VOTES votes since the reset at StartTime      *)
(* (the accounts of those calls are not tracked).                          *)
InitWarm ==
  /\ \E config \in ConfigCandidates :
       /\ initialize_err(config) = "Ok"
       /\ protocol = [initialize(config, Deployer) EXCEPT
                        !.daily_submission_count = MAX_DAILY_SUBMISSIONS,
                        !.daily_vote_count = MAX_DAILY_VOTES,
                        !.last_reset_timestamp = StartTime]
  /\ contents = <<>>
  /\ votes = <<>>
  /\ ledger = <<>>
  /\ now = StartTime
  /\ last = NoCall

SpecWarm == InitWarm /\ [][Next]_vars

(* SpecInstant: every instruction at one instant of the clock, the admin  *)
(* set held to MaxAdminLen entries.  It starts either right after          *)
(* initialize or from the state Spec reaches by a submission and a vote    *)
(* at StartTime followed by a day and nine seconds (AgedReached).          *)
AgedContent ==
  [Content_initialize(Deployer, "Article", MIN_AI_CONFIDENCE,
                      [voting_period |-> MIN_VOTING_PERIOD, quorum_percentage |-> 50],
                      StartTime)
     EXCEPT !.approve_votes = 5, !.total_stake = 5, !.vote_count = 1,
            !.last_vote_timestamp = StartTime]

AgedVote == Vote_initialize("bob", 1, "Approve", 5, StartTime)

AgedProtocol(config) ==
  [initialize(config, Deployer) EXCEPT
     !.daily_submission_count = 1, !.daily_vote_count = 1,
     !.last_reset_timestamp = StartTime]

InitInstant ==
  \E config \in ConfigCandidates :
    /\ initialize_err(config) = "Ok"
    /\ last = NoCall
    /\ \/ /\ protocol = initialize(config, Deployer)
          /\ contents = <<>>
          /\ votes = <<>>
          /\ ledger = <<>>
          /\ now = StartTime
       \/ /\ protocol = AgedProtocol(config)
          /\ contents = <<AgedContent>>
          /\ votes = <<AgedVote>>
          /\ ledger = <<NoPayments>>
          /\ now = StartTime + DAY + VOTE_COOLDOWN_PERIOD - 1

NextInstant ==
  \/ Submit
  \/ Vote
  \/ Finalize
  \/ Claim
  \/ Pause
  \/ Unpause
  \/ (Len(protocol.emergency_admins) < MaxAdminLen /\ AddAdmin)
  \/ RemoveAdmin
  \/ Distribute

SpecInstant == InitInstant /\ [][NextInstant]_vars

(* SpecAdmin: emergency control alone, the admin set free to grow to       *)
(* MAX_EMERGENCY_ADMINS entries.                                           *)
NextAdmin ==
  \/ Pause
  \/ Unpause
  \/ AddAdmin
  \/ RemoveAdmin

SpecAdmin == Init /\ [][NextAdmin]_vars

(* SpecRewards: the payment instructions over time.  It starts from the    *)
(* state Spec reaches by a submission and a vote of bob at StartTime.      *)
InitRewards ==
  /\ \E config \in ConfigCandidates :
       /\ initialize_err(config) = "Ok"
       /\ protocol = AgedProtocol(config)
  /\ contents = <<AgedContent>>
  /\ votes = <<AgedVote>>
  /\ ledger = <<NoPayments>>
  /\ now = StartTime
  /\ last = NoCall

NextRewards ==
  \/ Tick
  \/ Distribute
  \/ Claim
  \/ Pause
  \/ Unpause

SpecRewards == InitRewards /\ [][NextRewards]_vars

(* SpecWeight: calculate_voter_reward as a function of its arguments.  The *)
(* initial state holds one Vote of some stake and age (in seconds before   *)
(* now; a negative age is a timestamp after now); the action applies the   *)
(* function for some stake vault and reward pool and records the result.   *)
Ages == {-10, 0, 10000, 86399, 86400, 90000, 259199, 259200, 604799, 604800, 700000}

WeightedStakes == {0, 5, 7}

WeightedVaults == {0, 3, 10}

WeightedPools == {0, 33, 100, U64_MAX}

InitWeight ==
  /\ \E config \in ConfigCandidates :
       /\ initialize_err(config) = "Ok"
       /\ protocol = initialize(config, Deployer)
  /\ contents = <<>>
  /\ now = StartTime + 700000
  /\ \E voter \in Identities, stake_amount \in WeightedStakes, age \in Ages :
       votes = <<Vote_initialize(voter, 1, "Approve", stake_amount, now - age)>>
  /\ ledger = <<NoPayments>>
  /\ last = NoCall

CalculateVoterReward(v, total_stake, reward_pool) ==
    LET value == calculate_voter_reward(votes[v].stake_amount, total_stake, reward_pool,
                                        votes[v].vote_timestamp, now)
    IN /\ last' = [op |-> "calculate_voter_reward",
                   err |-> IF value = -1 THEN "CalculationError" ELSE "Ok",
                   content |-> 0, vote |-> v,
                   total_stake |-> total_stake, reward_pool |-> reward_pool,
                   weight |-> calculate_time_weight(votes[v].vote_timestamp, now),
                   value |-> value]
       /\ UNCHANGED <<protocol, contents, votes, ledger, now>>

NextWeight ==
  \E v \in DOMAIN votes, total_stake \in WeightedVaults, reward_pool \in WeightedPools :
     CalculateVoterReward(v, total_stake, reward_pool)

SpecWeight == InitWeight /\ [][NextWeight]_vars

(* the aged start of SpecInstant is a state of Spec *)
AgedReached ==
  /\ contents = <<AgedContent>>
  /\ votes = <<AgedVote>>
  /\ ledger = <<NoPayments>>
  /\ now = StartTime + DAY + VOTE_COOLDOWN_PERIOD - 1
  /\ \E config \in ConfigCandidates : protocol = AgedProtocol(config)

(***************************************************************************)
(* Properties                                                              *)
(***************************************************************************)
Terminal(content) == content.status \in {"Approved", "Rejected"}

(* C1: for every Content, approve_votes + reject_votes = total_stake in    *)
(* every state, so in particular after every successful cast_vote.         *)
C1_VotesSumToTotalStake ==
  \A c \in DOMAIN contents :
    contents[c].approve_votes + contents[c].reject_votes = contents[c].total_stake

(* a successful cast_vote on a Content that holds stake on both sides *)
C1_Witness ==
  /\ last.op = "cast_vote" /\ last.err = "Ok"
  /\ contents[last.content].approve_votes > 0
  /\ contents[last.content].reject_votes > 0

(* C2: the emergency admin set always has between 1 and                    *)
(* MAX_EMERGENCY_ADMINS entries.                                           *)
C2_AdminSetNeverEmpty ==
  /\ Len(protocol.emergency_admins) >= 1
  /\ Len(protocol.emergency_admins) <= MAX_EMERGENCY_ADMINS

(* C3: a finalize_decision on a Content that is already Approved or        *)
(* Rejected fails and does not write the status again.                     *)
C3_RefinalizeFails ==
  [][\A c \in DOMAIN contents :
       (Terminal(contents[c]) /\ FinalizeDecision(c))
         => (last'.err # "Ok" /\ UNCHANGED contents)]_vars

(* C4: the daily counters never exceed their caps.                         *)
C4_DailyCountersCapped ==
  /\ protocol.daily_submission_count <= MAX_DAILY_SUBMISSIONS
  /\ protocol.daily_vote_count <= MAX_DAILY_VOTES

(* ---- the preconditions of cast_vote and finalize_decision, as the       *)
(* specification words them ---- *)
StakeInBounds(stake_amount) ==
  stake_amount >= protocol.stake_required /\ stake_amount <= MAX_STAKE_PER_USER

WindowOpen(c) == now <= contents[c].submission_time + contents[c].voting_period

VotesOn(c) == { v \in DOMAIN votes : votes[v].content_id = c }

(* some successful vote on c at t, and now in [t, t + VOTE_COOLDOWN_PERIOD - 1] *)
InCooldown(c) ==
  \E v \in VotesOn(c) :
    /\ now >= votes[v].vote_timestamp
    /\ now <= votes[v].vote_timestamp + VOTE_COOLDOWN_PERIOD - 1

QuorumReached(c) ==
  contents[c].approve_votes + contents[c].reject_votes
    >= (contents[c].total_stake * contents[c].quorum_percentage) \div 100

VotesApart ==
  \A v \in DOMAIN votes, w \in DOMAIN votes :
    (v # w /\ votes[v].content_id = votes[w].content_id
       /\ votes[v].vote_timestamp <= votes[w].vote_timestamp)
      => votes[w].vote_timestamp - votes[v].vote_timestamp >= VOTE_COOLDOWN_PERIOD

(* what C5 says of a cast_vote once the cooldown is over, and of any two   *)
(* votes on one Content                                                    *)
C5_AfterCooldown(voter, c, stake_amount) ==
  (VotesOn(c) # {} /\ ~InCooldown(c) /\ ~protocol.is_paused
     /\ StakeInBounds(stake_amount) /\ WindowOpen(c))
    => /\ last'.err = "Ok"
       /\ votes'[last'.vote].voter = voter
       /\ votes'[last'.vote].vote_timestamp = now

(* C5 as stated: every cast_vote on a Content within the cooldown of a     *)
(* successful vote on it, by whichever voter, fails with                   *)
(* VotingTooFrequent; one at t + VOTE_COOLDOWN_PERIOD succeeds when its    *)
(* other preconditions hold; two votes on one Content are at least         *)
(* VOTE_COOLDOWN_PERIOD apart.                                             *)
C5_CooldownAlwaysTooFrequent ==
  [][/\ \A voter \in Identities, c \in DOMAIN contents, vote_type \in VoteTypes,
           stake_amount \in StakeAmounts :
          CastVote(voter, c, vote_type, stake_amount) =>
            /\ InCooldown(c) => last'.err = "VotingTooFrequent"
            /\ C5_AfterCooldown(voter, c, stake_amount)
     /\ VotesApart']_vars

(* C5, amended: a cast_vote on a Content within the cooldown of a          *)
(* successful vote on it, by whichever voter, fails and changes nothing;   *)
(* its error is VotingTooFrequent when the protocol is active, the stake   *)
(* is in bounds and the window is open.  Once the cooldown of every vote   *)
(* on the Content is over (from t + VOTE_COOLDOWN_PERIOD on) a cast_vote   *)
(* with those other preconditions succeeds.  Any two votes on one Content  *)
(* are at least VOTE_COOLDOWN_PERIOD apart.                                *)
C5_CooldownPerContent ==
  [][/\ \A voter \in Identities, c \in DOMAIN contents, vote_type \in VoteTypes,
           stake_amount \in StakeAmounts :
          CastVote(voter, c, vote_type, stake_amount) =>
            /\ InCooldown(c) =>
                 /\ last'.err # "Ok"
                 /\ UNCHANGED <<protocol, contents, votes, ledger>>
            /\ (InCooldown(c) /\ ~protocol.is_paused /\ StakeInBounds(stake_amount)
                  /\ WindowOpen(c))
                 => last'.err = "VotingTooFrequent"
            /\ C5_AfterCooldown(voter, c, stake_amount)
     /\ VotesApart']_vars

(* two voters, the second voting exactly VOTE_COOLDOWN_PERIOD after the first *)
C5_Witness ==
  /\ last.op = "cast_vote" /\ last.err = "Ok"
  /\ \E v \in VotesOn(last.content) :
       /\ votes[v].voter # votes[last.vote].voter
       /\ votes[last.vote].vote_timestamp = votes[v].vote_timestamp + VOTE_COOLDOWN_PERIOD

(* C7: a successful finalize_decision leaves the Content Approved exactly  *)
(* when approve_votes > reject_votes, and Rejected otherwise (so a tie is  *)
(* Rejected).                                                              *)
C7_MajorityDecides ==
  (last.op = "finalize_decision" /\ last.err = "Ok") =>
    LET content == contents[last.content]
    IN /\ content.status = "Approved" <=> content.approve_votes > content.reject_votes
       /\ content.status = "Rejected" <=> content.approve_votes <= content.reject_votes

(* a tie with stake on both sides finalized to Rejected *)
C7_Witness ==
  /\ last.op = "finalize_decision" /\ last.err = "Ok"
  /\ contents[last.content].approve_votes = contents[last.content].reject_votes
  /\ contents[last.content].approve_votes > 0
  /\ contents[last.content].status = "Rejected"

(* C9: cast_vote reports the first failing precondition in the order       *)
(* paused, stake bounds, voting window, cooldown, whatever else is         *)
(* violated at the same time.                                              *)
C9_FirstFailureWins ==
  [][\A voter \in Identities, c \in DOMAIN contents, vote_type \in VoteTypes,
        stake_amount \in StakeAmounts :
       CastVote(voter, c, vote_type, stake_amount) =>
         /\ protocol.is_paused => last'.err = "ProtocolPaused"
         /\ (~protocol.is_paused /\ ~StakeInBounds(stake_amount))
              => last'.err = "InvalidStakeAmount"
         /\ (~protocol.is_paused /\ StakeInBounds(stake_amount) /\ ~WindowOpen(c))
              => last'.err = "VotingPeriodEnded"
         /\ (~protocol.is_paused /\ StakeInBounds(stake_amount) /\ WindowOpen(c)
               /\ now < contents[c].last_vote_timestamp + VOTE_COOLDOWN_PERIOD)
              => last'.err = "VotingTooFrequent"]_vars

(* InvalidStakeAmount reported although the window is closed and the       *)
(* cooldown is still running                                               *)
C9_Witness ==
  /\ last.op = "cast_vote" /\ last.err = "InvalidStakeAmount"
  /\ ~WindowOpen(last.content)
  /\ now < contents[last.content].last_vote_timestamp + VOTE_COOLDOWN_PERIOD

GatedByPause ==
  {"submit_content", "cast_vote", "finalize_decision", "claim_rewards",
   "distribute_rewards"}

(* what C6 says of the five gated instructions *)
C6_PausedCallsFail ==
  (protocol.is_paused /\ last'.op \in GatedByPause)
    => /\ last'.err = "ProtocolPaused"
       /\ UNCHANGED <<protocol, contents, votes, ledger>>

(* C6 as stated: while is_paused, submit_content, cast_vote,               *)
(* finalize_decision, claim_rewards and distribute_rewards fail with       *)
(* ProtocolPaused and change nothing, and unpause_protocol,                *)
(* add_emergency_admin and remove_emergency_admin by a current admin       *)
(* succeed.                                                                *)
C6_AdminCallsAlwaysSucceedPaused ==
  [][/\ C6_PausedCallsFail
     /\ \A admin \in Identities, other \in Identities :
          (protocol.is_paused /\ contains(protocol.emergency_admins, admin)) =>
            /\ UnpauseProtocol(admin) => last'.err = "Ok"
            /\ AddEmergencyAdmin(admin, other) => last'.err = "Ok"
            /\ RemoveEmergencyAdmin(admin, other) => last'.err = "Ok"]_vars

(* C6, amended: while is_paused the five gated instructions fail with      *)
(* ProtocolPaused and change nothing; unpause_protocol by a current admin  *)
(* succeeds and clears the flag; add_emergency_admin by a current admin    *)
(* succeeds when the set has fewer than MAX_EMERGENCY_ADMINS entries and   *)
(* remove_emergency_admin by a current admin succeeds when the set has     *)
(* more than one entry, as they do when the protocol is not paused.        *)
C6_PauseGatesAllButAdmin ==
  [][/\ C6_PausedCallsFail
     /\ \A admin \in Identities, other \in Identities :
          (protocol.is_paused /\ contains(protocol.emergency_admins, admin)) =>
            /\ UnpauseProtocol(admin)
                 => (last'.err = "Ok" /\ ~protocol'.is_paused)
            /\ (AddEmergencyAdmin(admin, other)
                  /\ Len(protocol.emergency_admins) < MAX_EMERGENCY_ADMINS)
                 => /\ last'.err = "Ok"
                    /\ protocol'.emergency_admins
                         = Append(protocol.emergency_admins, other)
            /\ (RemoveEmergencyAdmin(admin, other)
                  /\ Len(protocol.emergency_admins) > 1)
                 => /\ last'.err = "Ok"
                    /\ ~contains(protocol'.emergency_admins, other)]_vars

(* paused: a claim_rewards that is due, by the voter, on an Active vote    *)
(* has just failed with ProtocolPaused                                     *)
C6_Witness ==
  /\ protocol.is_paused
  /\ last.op = "claim_rewards" /\ last.err = "ProtocolPaused"
  /\ votes[last.vote].status = "Active"
  /\ now >= votes[last.vote].vote_timestamp + STAKE_LOCKUP_PERIOD
  /\ contents[last.content].total_stake > 0

(* what C8 says besides the error of a repeated claim: Rewarded is final   *)
(* and a Vote is paid by claim_rewards at most once                        *)
C8_RewardedIsFinal ==
  /\ \A v \in DOMAIN votes :
       votes[v].status = "Rewarded" => votes'[v].status = "Rewarded"
  /\ \A v \in DOMAIN ledger' : ledger'[v].claims <= 1

(* C8 as stated: after a successful claim_rewards on a Vote every later    *)
(* claim_rewards on it fails with RewardsAlreadyClaimed and transfers      *)
(* nothing.                                                                *)
C8_SecondClaimAlwaysAlreadyClaimed ==
  [][/\ \A v \in DOMAIN votes, c \in DOMAIN contents, voter \in Identities :
          (ClaimRewards(v, c, voter) /\ votes[v].status = "Rewarded")
            => /\ last'.err = "RewardsAlreadyClaimed"
               /\ UNCHANGED <<votes, ledger>>
     /\ C8_RewardedIsFinal]_vars

(* C8, amended: Vote.status moves only from Active to Rewarded; after a    *)
(* successful claim_rewards on a Vote every later claim_rewards on it      *)
(* fails and transfers nothing, with ProtocolPaused when the protocol is   *)
(* paused, else Unauthorized when the caller is not the Vote's voter,      *)
(* else RewardsAlreadyClaimed; at most one claim_rewards per Vote          *)
(* succeeds.                                                               *)
C8_ClaimOnce ==
  [][/\ \A v \in DOMAIN votes, c \in DOMAIN contents, voter \in Identities :
          (ClaimRewards(v, c, voter) /\ votes[v].status = "Rewarded")
            => /\ last'.err = IF protocol.is_paused THEN "ProtocolPaused"
                              ELSE IF voter # votes[v].voter THEN "Unauthorized"
                              ELSE "RewardsAlreadyClaimed"
               /\ UNCHANGED <<votes, ledger>>
     /\ C8_RewardedIsFinal]_vars

(* a second claim_rewards on a paid Vote refused *)
C8_Witness ==
  /\ last.op = "claim_rewards" /\ last.err = "RewardsAlreadyClaimed"
  /\ votes[last.vote].status = "Rewarded"
  /\ ledger[last.vote].claims = 1

(* what C10 says of a successful finalize_decision and of the quorum *)
C10_SuccessNeedsWindowAndQuorum(c) ==
  /\ last'.err = "Ok" => (now > contents[c].submission_time + contents[c].voting_period
                            /\ QuorumReached(c))
  /\ (~protocol.is_paused /\ ~WindowOpen(c) /\ ~QuorumReached(c))
       => last'.err = "QuorumNotReached"

(* C10 as stated: finalize_decision succeeds only after the window and     *)
(* with the quorum; at any now <= submission_time + voting_period it fails *)
(* with VotingPeriodActive and the status stays Pending; with the quorum   *)
(* inequality false it fails with QuorumNotReached.                        *)
C10_EarlyAlwaysVotingPeriodActive ==
  [][\A c \in DOMAIN contents :
       FinalizeDecision(c) =>
         /\ C10_SuccessNeedsWindowAndQuorum(c)
         /\ WindowOpen(c) => /\ last'.err = "VotingPeriodActive"
                             /\ contents[c].status = "Pending"
                             /\ contents'[c].status = "Pending"]_vars

(* C10, amended: as stated, except that a finalize_decision at             *)
(* now <= submission_time + voting_period fails with ProtocolPaused when   *)
(* the protocol is paused and with VotingPeriodActive otherwise.           *)
C10_FinalizeGuards ==
  [][\A c \in DOMAIN contents :
       FinalizeDecision(c) =>
         /\ C10_SuccessNeedsWindowAndQuorum(c)
         /\ WindowOpen(c) => /\ last'.err = IF protocol.is_paused
                                              THEN "ProtocolPaused"
                                              ELSE "VotingPeriodActive"
                             /\ contents[c].status = "Pending"
                             /\ contents'[c].status = "Pending"]_vars

(* finalize_decision refused in the last second of the window of a         *)
(* Content that holds votes                                                *)
C10_Witness ==
  /\ last.op = "finalize_decision" /\ last.err = "VotingPeriodActive"
  /\ now = contents[last.content].submission_time + contents[last.content].voting_period
  /\ contents[last.content].total_stake > 0
  /\ contents[last.content].status = "Pending"

(* C11: once a Content is Approved or Rejected, no instruction changes its *)
(* status, approve_votes, reject_votes, total_stake or vote_count, and no  *)
(* cast_vote on it succeeds (the clock never goes back).                   *)
C11_TerminalContentFrozen ==
  [][\A c \in DOMAIN contents :
       Terminal(contents[c]) =>
         /\ contents'[c].status = contents[c].status
         /\ contents'[c].approve_votes = contents[c].approve_votes
         /\ contents'[c].reject_votes = contents[c].reject_votes
         /\ contents'[c].total_stake = contents[c].total_stake
         /\ contents'[c].vote_count = contents[c].vote_count
         /\ \A voter \in Identities, vote_type \in VoteTypes,
               stake_amount \in StakeAmounts :
              CastVote(voter, c, vote_type, stake_amount) => last'.err # "Ok"]_vars

(* a cast_vote with a valid stake refused on a finalized Content that      *)
(* holds a vote                                                            *)
C11_Witness ==
  /\ last.op = "cast_vote" /\ last.err = "VotingPeriodEnded"
  /\ Terminal(contents[last.content])
  /\ contents[last.content].vote_count > 0
  /\ ~protocol.is_paused

(* the preconditions of submit_content other than the daily counter *)
SubmissionValid(content_type, hash_len, ai_score) ==
  /\ ~protocol.is_paused
  /\ content_type \notin {"Video", "DeFi"}
  /\ hash_len <= MAX_CONTENT_HASH_LENGTH
  /\ ai_score >= MIN_AI_CONFIDENCE

ResetDue == now - protocol.last_reset_timestamp >= 86400

(* C12: a submit_content at a time with now - last_reset_timestamp >= 86400 *)
(* succeeds whatever daily_submission_count was, and leaves                *)
(* daily_submission_count = 1, daily_vote_count = 0 and                    *)
(* last_reset_timestamp = now; a submit_content earlier than that leaves   *)
(* last_reset_timestamp and daily_vote_count alone and adds exactly 1 to   *)
(* daily_submission_count.                                                 *)
C12_SubmitResetsWhenDue ==
  [][\A submitter \in Submitters, content_type \in ContentTypes,
        hash_len \in HashLengths, ai_score \in AiScores :
       SubmitContent(submitter, content_type, hash_len, ai_score) =>
         /\ (ResetDue /\ SubmissionValid(content_type, hash_len, ai_score))
              => /\ last'.err = "Ok"
                 /\ protocol'.daily_submission_count = 1
                 /\ protocol'.daily_vote_count = 0
                 /\ protocol'.last_reset_timestamp = now
         /\ (~ResetDue /\ last'.err = "Ok")
              => /\ protocol'.last_reset_timestamp = protocol.last_reset_timestamp
                 /\ protocol'.daily_vote_count = protocol.daily_vote_count
                 /\ protocol'.daily_submission_count
                      = protocol.daily_submission_count + 1]_vars

(* a submission exactly a day after the last reset, the counters having    *)
(* stood at their caps                                                     *)
C12_Witness ==
  /\ last.op = "submit_content" /\ last.err = "Ok"
  /\ now = StartTime + DAY
  /\ protocol.daily_submission_count = 1
  /\ protocol.daily_vote_count = 0
  /\ protocol.last_reset_timestamp = now

(* C13: a successful cast_vote at a time with                              *)
(* now - last_reset_timestamp >= 86400 runs the daily reset before it      *)
(* counts the vote: afterwards daily_vote_count = 1,                       *)
(* daily_submission_count = 0 and last_reset_timestamp = now.              *)
C13_VoteResetsWhenDue ==
  [][\A voter \in Identities, c \in DOMAIN contents, vote_type \in VoteTypes,
        stake_amount \in StakeAmounts :
       (CastVote(voter, c, vote_type, stake_amount) /\ last'.err = "Ok" /\ ResetDue)
         => /\ protocol'.daily_vote_count = 1
            /\ protocol'.daily_submission_count = 0
            /\ protocol'.last_reset_timestamp = now]_vars

(* C14: a claim_rewards given a Content whose total_stake is 0 is rejected *)
(* with an error of the program before the division                        *)
(* stake_amount * reward_per_vote / total_stake is evaluated; the Vote     *)
(* stays as it was and nothing is transferred.                             *)
C14_ZeroTotalStakeRejected ==
  [][\A v \in DOMAIN votes, c \in DOMAIN contents, voter \in Identities :
       (ClaimRewards(v, c, voter) /\ contents[c].total_stake = 0)
         => /\ last'.err \notin {"Ok", "Panic"}
            /\ UNCHANGED <<votes, ledger>>]_vars

RECURSIVE BatchTotal(_, _)
BatchTotal(l, i) ==
  IF i > Len(l) THEN 0 ELSE l[i].batch_amount + BatchTotal(l, i + 1)

DistributionDue ==
  now >= protocol.last_reward_distribution_timestamp + REWARD_DISTRIBUTION_PERIOD

(* what C16 says of the reward pool, of a successful distribute_rewards    *)
(* and of the two fields over time                                         *)
C16_Accounting ==
  /\ \A batch \in Batches, total_stake \in StakeVaults, reward_pool \in RewardPools,
        early \in SUBSET DOMAIN votes :
       DistributeRewards(batch, total_stake, reward_pool, early) =>
         /\ reward_pool = 0 => (last'.err # "Ok" /\ UNCHANGED <<protocol, ledger>>)
         /\ last'.err = "Ok" =>
              /\ DistributionDue
              /\ protocol'.last_reward_distribution_timestamp = now
              /\ protocol'.total_rewards_distributed
                   = protocol.total_rewards_distributed
                       + (BatchTotal(ledger', 1) - BatchTotal(ledger, 1))
  /\ protocol'.total_rewards_distributed >= protocol.total_rewards_distributed
  /\ protocol'.last_reward_distribution_timestamp
       # protocol.last_reward_distribution_timestamp
       => protocol'.last_reward_distribution_timestamp
            >= protocol.last_reward_distribution_timestamp + REWARD_DISTRIBUTION_PERIOD

(* C16 as stated: distribute_rewards fails with RewardDistributionNotDue   *)
(* unless now >= last_reward_distribution_timestamp +                      *)
(* REWARD_DISTRIBUTION_PERIOD, and fails when the reward pool is 0; on     *)
(* success last_reward_distribution_timestamp = now and                    *)
(* total_rewards_distributed grows by the sum of the rewards paid; two     *)
(* successful distributions are at least REWARD_DISTRIBUTION_PERIOD apart  *)
(* and total_rewards_distributed never decreases.                          *)
C16_UndueAlwaysNotDue ==
  [][/\ C16_Accounting
     /\ (last'.op = "distribute_rewards" /\ ~DistributionDue)
          => last'.err = "RewardDistributionNotDue"]_vars

(* C16, amended: as stated, except that a distribute_rewards before        *)
(* last_reward_distribution_timestamp + REWARD_DISTRIBUTION_PERIOD fails   *)
(* with ProtocolPaused when the protocol is paused and with                *)
(* RewardDistributionNotDue otherwise; it changes nothing.                 *)
C16_DistributionSchedule ==
  [][/\ C16_Accounting
     /\ (last'.op = "distribute_rewards" /\ ~DistributionDue)
          => /\ last'.err = IF protocol.is_paused THEN "ProtocolPaused"
                            ELSE "RewardDistributionNotDue"
             /\ UNCHANGED <<protocol, ledger>>]_vars

(* a successful distribution a day after an earlier one: more has been     *)
(* paid in all than one reward pool holds                                  *)
C16_Witness ==
  /\ last.op = "distribute_rewards" /\ last.err = "Ok"
  /\ protocol.last_reward_distribution_timestamp = StartTime + DAY
  /\ protocol.total_rewards_distributed > 100
  /\ protocol.total_rewards_distributed = BatchTotal(ledger, 1)

(* what C17 says of calculate_time_weight *)
C17_Tiers ==
  LET elapsed == now - votes[last.vote].vote_timestamp
  IN /\ elapsed < 86400 => last.weight = 100
     /\ (elapsed >= 86400 /\ elapsed < 259200) => last.weight = 75
     /\ (elapsed >= 259200 /\ elapsed < 604800) => last.weight = 50
     /\ elapsed >= 604800 => last.weight = 25
     /\ elapsed = 90000 => last.weight = 75
     /\ elapsed = 10000 => last.weight = 100
     /\ elapsed = 700000 => last.weight = 25

(* floor(floor(stake_amount * reward_pool / total_stake) * weight / 100)   *)
(* for the recorded call                                                   *)
WeightedShare ==
  (((votes[last.vote].stake_amount * last.reward_pool) \div last.total_stake)
     * last.weight) \div 100

(* C17 as stated: calculate_time_weight gives 100 when                     *)
(* now - vote_timestamp < 86400, 75 in [86400, 259200), 50 in              *)
(* [259200, 604800) and 25 from 604800 on (so 75 at 25h, 100 at 10000s, 25 *)
(* at 700000s), and the reward of a vote without the early bonus is        *)
(* floor(floor(stake_amount * reward_pool / total_stake) * weight / 100).  *)
C17_RewardAlwaysWeightedShare ==
  last.op = "calculate_voter_reward" =>
    /\ C17_Tiers
    /\ last.total_stake > 0 => (last.err = "Ok" /\ last.value = WeightedShare)

(* C17, amended: the tiers as stated; the reward of a vote without the     *)
(* early bonus is that weighted share when it fits a u64, and 0 when it    *)
(* does not.                                                               *)
C17_TimeWeightTiers ==
  last.op = "calculate_voter_reward" =>
    /\ C17_Tiers
    /\ last.total_stake > 0 =>
         /\ last.err = "Ok"
         /\ last.value = IF WeightedShare <= U64_MAX THEN WeightedShare ELSE 0

(* a vote exactly a day old: weight 75, and both divisions round down      *)
(* (7 * 33 / 3 = 77, 77 * 75 / 100 = 57)                                   *)
C17_Witness ==
  /\ last.op = "calculate_voter_reward" /\ last.err = "Ok"
  /\ now - votes[last.vote].vote_timestamp = 86400
  /\ last.weight = 75
  /\ last.value = 57

(* C18: pause_protocol, unpause_protocol, add_emergency_admin and          *)
(* remove_emergency_admin called by an identity that is not in             *)
(* emergency_admins fail and leave is_paused and emergency_admins alone;   *)
(* a step that changes either is a successful call of one of the four by   *)
(* a member.                                                               *)
C18_OnlyAdminsControl ==
  [][/\ \A admin \in Identities, other \in Identities :
          (/\ ~contains(protocol.emergency_admins, admin)
           /\ \/ PauseProtocol(admin)
              \/ UnpauseProtocol(admin)
              \/ AddEmergencyAdmin(admin, other)
              \/ RemoveEmergencyAdmin(admin, other))
            => (last'.err # "Ok" /\ UNCHANGED protocol)
     /\ (\/ protocol'.is_paused # protocol.is_paused
         \/ protocol'.emergency_admins # protocol.emergency_admins)
          => /\ last'.err = "Ok"
             /\ \E admin \in Identities, other \in Identities :
                  /\ contains(protocol.emergency_admins, admin)
                  /\ \/ PauseProtocol(admin)
                     \/ UnpauseProtocol(admin)
                     \/ AddEmergencyAdmin(admin, other)
                     \/ RemoveEmergencyAdmin(admin, other)]_vars

(* a pause_protocol by an identity outside a non-empty admin set refused   *)
C18_Witness ==
  /\ last.op = "pause_protocol" /\ last.err = "Unauthorized"
  /\ ~protocol.is_paused
  /\ Len(protocol.emergency_admins) >= 1
  /\ \E id \in Identities : ~contains(protocol.emergency_admins, id)

(* C19: remove_emergency_admin on a set of exactly one entry fails with    *)
(* CannotRemoveLastAdmin, add_emergency_admin on a set of                  *)
(* MAX_EMERGENCY_ADMINS entries fails with MaxEmergencyAdminsReached, both *)
(* leaving the set alone; a successful remove_emergency_admin removes      *)
(* every occurrence of its target and nothing else.                        *)
C19_AdminSetLimits ==
  [][\A admin \in Identities, other \in Identities :
       /\ (RemoveEmergencyAdmin(admin, other) /\ Len(protocol.emergency_admins) = 1)
            => (last'.err = "CannotRemoveLastAdmin" /\ UNCHANGED protocol)
       /\ (AddEmergencyAdmin(admin, other)
             /\ Len(protocol.emergency_admins) = MAX_EMERGENCY_ADMINS)
            => (last'.err = "MaxEmergencyAdminsReached" /\ UNCHANGED protocol)
       /\ (RemoveEmergencyAdmin(admin, other) /\ last'.err = "Ok")
            => /\ Occurrences(protocol'.emergency_admins, other) = 0
               /\ \A id \in Identities \ {other} :
                    Occurrences(protocol'.emergency_admins, id)
                      = Occurrences(protocol.emergency_admins, id)
               /\ Len(protocol'.emergency_admins)
                    = Len(protocol.emergency_admins)
                        - Occurrences(protocol.emergency_admins, other)]_vars

(* add_emergency_admin refused on a full set that holds both identities    *)
C19_Witness ==
  /\ last.op = "add_emergency_admin" /\ last.err = "MaxEmergencyAdminsReached"
  /\ Len(protocol.emergency_admins) = MAX_EMERGENCY_ADMINS
  /\ Occurrences(protocol.emergency_admins, "bob") >= 2

StakeLocked(v) == now < votes[v].vote_timestamp + STAKE_LOCKUP_PERIOD

(* what C20 says of a successful claim_rewards *)
C20_SuccessNeeds(v, voter) ==
  last'.err = "Ok" =>
    /\ ~protocol.is_paused
    /\ now >= votes[v].vote_timestamp + STAKE_LOCKUP_PERIOD
    /\ voter = votes[v].voter
    /\ votes[v].status = "Active"
    /\ votes'[v].status = "Rewarded"

(* C20 as stated: claim_rewards succeeds only if the protocol is active,   *)
(* the lockup is over, the caller is the Vote's voter and the Vote is      *)
(* Active; a call before the end of the lockup fails with                  *)
(* StakeStillLocked, a call by another identity fails with Unauthorized,   *)
(* and in both cases the Vote stays as it was and nothing is transferred.  *)
C20_LockedAlwaysStakeStillLocked ==
  [][\A v \in DOMAIN votes, c \in DOMAIN contents, voter \in Identities :
       ClaimRewards(v, c, voter) =>
         /\ C20_SuccessNeeds(v, voter)
         /\ StakeLocked(v)
              => (last'.err = "StakeStillLocked" /\ UNCHANGED <<votes, ledger>>)
         /\ voter # votes[v].voter
              => (last'.err = "Unauthorized" /\ UNCHANGED <<votes, ledger>>)]_vars

(* C20, amended: as stated, except that the error of a refused call is     *)
(* that of the first check that fails, in the order paused, lockup,        *)
(* caller: a call before the end of the lockup fails with ProtocolPaused   *)
(* when the protocol is paused and with StakeStillLocked otherwise; a call *)
(* by another identity fails with ProtocolPaused when paused, else with    *)
(* StakeStillLocked before the end of the lockup, else with Unauthorized.  *)
C20_ClaimGuards ==
  [][\A v \in DOMAIN votes, c \in DOMAIN contents, voter \in Identities :
       ClaimRewards(v, c, voter) =>
         /\ C20_SuccessNeeds(v, voter)
         /\ StakeLocked(v)
              => /\ last'.err = IF protocol.is_paused THEN "ProtocolPaused"
                                ELSE "StakeStillLocked"
                 /\ UNCHANGED <<votes, ledger>>
         /\ voter # votes[v].voter
              => /\ last'.err = IF protocol.is_paused THEN "ProtocolPaused"
                                ELSE IF StakeLocked(v) THEN "StakeStillLocked"
                                ELSE "Unauthorized"
                 /\ UNCHANGED <<votes, ledger>>]_vars

(* a claim_rewards refused in the last second of the lockup                *)
C20_Witness ==
  /\ last.op = "claim_rewards" /\ last.err = "StakeStillLocked"
  /\ now = votes[last.vote].vote_timestamp + STAKE_LOCKUP_PERIOD - 1
  /\ votes[last.vote].status = "Active"
  /\ ledger[last.vote].claims = 0

(* C21: finalize_decision never fails with QuorumNotReached: on an active  *)
(* protocol, once now > submission_time + voting_period, it succeeds for   *)
(* every Content, and a Content without any vote becomes Rejected.         *)
C21_QuorumNeverFails ==
  [][\A c \in DOMAIN contents :
       FinalizeDecision(c) =>
         /\ last'.err # "QuorumNotReached"
         /\ (~protocol.is_paused /\ ~WindowOpen(c)) => last'.err = "Ok"
         /\ (last'.err = "Ok" /\ contents[c].vote_count = 0)
              => contents'[c].status = "Rejected"]_vars

(* a Content that received no vote finalized to Rejected *)
C21_Witness ==
  /\ last.op = "finalize_decision" /\ last.err = "Ok"
  /\ contents[last.content].vote_count = 0
  /\ contents[last.content].total_stake = 0
  /\ contents[last.content].status = "Rejected"

(* C22: no Vote receives more than one transfer of distribute_rewards,     *)
(* over every sequence of distributions and every batch (one that lists a  *)
(* Vote twice included), and a Vote already Rewarded through claim_rewards *)
(* receives none.                                                          *)
C22_BatchPaysOnce ==
  [][\A v \in DOMAIN ledger :
       /\ ledger'[v].batches <= 1
       /\ votes[v].status = "Rewarded" => ledger'[v].batches = ledger[v].batches]_vars

(* everything claim_rewards has paid for the votes on Content c, over the  *)
(* votes from i on                                                         *)
RECURSIVE ClaimedOn(_, _)
ClaimedOn(c, i) ==
  IF i > Len(votes) THEN 0
  ELSE (IF votes[i].content_id = c THEN ledger[i].claim_amount ELSE 0)
         + ClaimedOn(c, i + 1)

(* C23: for every Content the rewards paid by the successful claim_rewards *)
(* calls on its Votes sum to at most reward_per_vote, whatever the order   *)
(* of cast_vote and claim_rewards.                                         *)
C23_ClaimsWithinRewardPerVote ==
  \A c \in DOMAIN contents : ClaimedOn(c, 1) <= protocol.reward_per_vote
====
